---- MODULE Spec2Model ----
(***************************************************************************)
(* Model of src/main.py: the lazily resolved `processor` field of the two  *)
(* namedtuple subclasses uname_result and uname_result2, the resolver      *)
(* _Processor, and the demo entry point main().                            *)
(*                                                                         *)
(* Python values are modelled as follows.  A str is a TLA+ string; the     *)
(* standard output of the external command is a sequence of tokens (words  *)
(* and whitespace characters) so that strip() has something to remove.     *)
(* An optional value (str or None) is a sequence of length 0 or 1.  An     *)
(* instance is a record [cls, items, dict]: its class, the physical tuple  *)
(* stored by tuple.__new__, and its __dict__ (where cached_property keeps  *)
(* the resolved value under the key "processor").                          *)
(*                                                                         *)
(* The two variants are run side by side on the same inputs: every         *)
(* variable that belongs to a caller's session is a function over          *)
(* Variants, and each action applies one operation to both.                *)
(***************************************************************************)
EXTENDS Integers, Sequences, FiniteSets, TLC

VARIABLES
    name,       \* __name__ of the module: "__main__" (run as a script) or "main" (imported)
    heap,       \* heap[v][n]: <<>> or <<the instance variable n of variant v's caller holds>>
    hist,       \* hist[v][n]: how that instance was created and what the resolver returned for it
    call,       \* the operation the caller performed last
    ret,        \* ret[v]: what that operation returned or raised for variant v
    mpc,        \* position of main(): the next line to run
    m_uname_cache, \* main's local _uname_cache: <<>> before line 143, then <<instance>>
    m_stdout,   \* what main has printed so far
    m_log,      \* what the resolver returned during main
    m_exc       \* the exception that left main, "" if none

vars == <<name, heap, hist, call, ret, mpc, m_uname_cache, m_stdout, m_log, m_exc>>

-----------------------------------------------------------------------------
(* Bounds of the model *)

MaxArgs == 6        \* longest argument list handed to a constructor
MaxKey == 6         \* index keys range over -(MaxKey+1) .. MaxKey

-----------------------------------------------------------------------------
(* The classes *)

Variants == {"uname_result", "uname_result2"}

\* namedtuple("uname_result_base", "system node release version machine")
uname_result_base == <<"system", "node", "release", "version", "machine">>

\* cls._fields: inherited from the base by uname_result, overridden by uname_result2
_fields(cls) ==
    IF cls = "uname_result2"
    THEN <<"system", "node", "release", "version", "machine", "processor">>
    ELSE uname_result_base

\* mutant of _unknown_as_blank: the sentinel is passed through
unknown_as_blank_identity(val) == val

_unknown_as_blank(val) == IF val = "unknown" THEN "" ELSE val

\* map(_unknown_as_blank, vals)
map_unknown_as_blank(vals) == [k \in 1..Len(vals) |-> _unknown_as_blank(vals[k])]

-----------------------------------------------------------------------------
(* _Processor *)

Whitespace == {" ", "\n"}

\* str.strip() on a token sequence: drop leading and trailing whitespace
RECURSIVE lstrip(_)
lstrip(s) == IF s # <<>> /\ Head(s) \in Whitespace THEN lstrip(Tail(s)) ELSE s

RECURSIVE rstrip(_)
rstrip(s) ==
    IF s # <<>> /\ s[Len(s)] \in Whitespace THEN rstrip(SubSeq(s, 1, Len(s) - 1)) ELSE s

strip(s) == rstrip(lstrip(s))

\* the str a stripped one-word output stands for
text(s) == IF s = <<>> THEN "" ELSE s[1]

\* subprocess.check_output(['uname', '-p'], ...): the output, or the exception raised
check_output(proc) ==
    IF ~proc.spawned THEN [raised |-> "OSError", out |-> <<>>]
    ELSE IF proc.exit # 0 THEN [raised |-> "CalledProcessError", out |-> <<>>]
    ELSE [raised |-> "", out |-> proc.stdout]

\* mutant of from_subprocess_except: the except clause names OSError only
except_OSError_only == {"OSError"}

\* the exceptions the except clause of from_subprocess names
from_subprocess_except == {"OSError", "CalledProcessError"}

\* the try statement around check_output, r being what check_output did: val is
\* <<str>>, or <<>> for the None that falls out of the except clause; any
\* other exception leaves the function
try_except(r) ==
    IF r.raised = "" THEN [raised |-> "", val |-> <<text(strip(r.out))>>]
    ELSE IF r.raised \in from_subprocess_except THEN [raised |-> "", val |-> <<>>]
    ELSE [raised |-> r.raised, val |-> <<>>]

\* _Processor.from_subprocess
from_subprocess(proc) == try_except(check_output(proc))

\* `func() or ''`, r being what func did
or_blank(r) ==
    [raised |-> r.raised, val |-> IF r.val = <<>> \/ r.val[1] = "" THEN "" ELSE r.val[1]]

\* _Processor.get: no get_<platform> attribute exists on the class, so getattr
\* always falls back to from_subprocess
_Processor_get(proc) == or_blank(from_subprocess(proc))

-----------------------------------------------------------------------------
(* Instance methods.  Each returns a record holding the Python result res  *)
(* (what was returned or raised), the instance afterwards (self, in a      *)
(* sequence of length 0 or 1 for constructors) and the resolver calls it   *)
(* made (log).                                                             *)

NoDict == <<>>

Result(status, val, n, exc, msg, ctor) ==
    [status |-> status, val |-> val, n |-> n, exc |-> exc, msg |-> msg, ctor |-> ctor]

Return(val, n, ctor) == Result("return", val, n, "", "", ctor)
Raise(exc, msg) == Result("raise", <<>>, 0, exc, msg, "")
NoResult == Result("none", <<>>, 0, "", "", "")

Raised(r) == r.res.status = "raise"

\* one resolver call, as the history records it: whether the command failed
\* and what _Processor.get handed back
LogEntry(proc) ==
    [failed |-> check_output(proc).raised # "", value |-> _Processor_get(proc).val]

\* return _unknown_as_blank(_Processor.get()), g being what get did and store
\* telling whether the value is kept in the instance __dict__
processor_body(self, g, entry, store) ==
    IF g.raised # ""
    THEN [res |-> Raise(g.raised, "uname -p"), self |-> self, log |-> <<entry>>]
    ELSE [res |-> Return(<<_unknown_as_blank(g.val)>>, 0, ""),
          self |-> IF store
                   THEN [self EXCEPT !.dict = ("processor" :> _unknown_as_blank(g.val))]
                   ELSE self,
          log |-> <<entry>>]

\* mutant of processor: a plain property, computed on every read and never stored
processor_uncached(self, proc) ==
    processor_body(self, _Processor_get(proc), LogEntry(proc), FALSE)

\* functools.cached_property: the value in __dict__ if present, else compute and store
processor(self, proc) ==
    IF "processor" \in DOMAIN self.dict
    THEN [res |-> Return(<<self.dict["processor"]>>, 0, ""), self |-> self, log |-> <<>>]
    ELSE processor_body(self, _Processor_get(proc), LogEntry(proc), TRUE)

\* itertools.chain(super().__iter__(), (p,)), materialised, p being what
\* evaluating self.processor did
chain(self, p) ==
    IF Raised(p) THEN p
    ELSE [res |-> Return(self.items \o p.res.val, 0, ""), self |-> p.self, log |-> p.log]

\* mutant of __iter__: the inherited iterator over the five stored values
iter_inherited(self, proc) ==
    [res |-> Return(self.items, 0, ""), self |-> self, log |-> <<>>]

\* uname_result.__iter__
__iter__(self, proc) == chain(self, processor(self, proc))

\* len(t), t being what tuple(iter(self)) did
tuple_len(t) ==
    IF Raised(t) THEN t
    ELSE [res |-> Return(<<>>, Len(t.res.val), ""), self |-> t.self, log |-> t.log]

\* mutant of __len__: the inherited tuple length
len_inherited(self, proc) ==
    [res |-> Return(<<>>, Len(self.items), ""), self |-> self, log |-> <<>>]

\* len(tuple(iter(self)))
__len__(self, proc) == tuple_len(__iter__(self, proc))

\* t[key] on a plain tuple
tuple_getitem(t, key) ==
    IF key >= 0 /\ key < Len(t) THEN Return(<<t[key + 1]>>, 0, "")
    ELSE IF key < 0 /\ key >= -Len(t) THEN Return(<<t[Len(t) + key + 1]>>, 0, "")
    ELSE Raise("IndexError", "tuple index out of range")

\* t[key], t being what tuple(self) did
tuple_index(t, key) ==
    IF Raised(t) THEN t
    ELSE [res |-> tuple_getitem(t.res.val, key), self |-> t.self, log |-> t.log]

\* mutant of __getitem__: the inherited indexing of the five stored values
getitem_inherited(self, key, proc) ==
    [res |-> tuple_getitem(self.items, key), self |-> self, log |-> <<>>]

\* tuple(self)[key]
__getitem__(self, key, proc) == tuple_index(__iter__(self, proc), key)

\* t[:stop] on a plain tuple, stop >= 0
tuple_slice_to(t, stop) == SubSeq(t, 1, IF stop < Len(t) THEN stop ELSE Len(t))

\* mutant of reduce_stop: uname_result2 slices at len(self._fields) as uname_result does
reduce_stop_all_fields(cls) == Len(_fields(cls))

\* how many leading values __reduce__ keeps:
\* len(self._fields) in uname_result, len(self._fields) - 1 in uname_result2
reduce_stop(cls) ==
    IF cls = "uname_result2" THEN Len(_fields(cls)) - 1 ELSE Len(_fields(cls))

\* uname_result, t[:stop], t being what tuple(self) did
reduced(t, stop) ==
    IF Raised(t) THEN t
    ELSE [res |-> Return(tuple_slice_to(t.res.val, stop), 0, "uname_result"),
          self |-> t.self, log |-> t.log]

\* return uname_result, tuple(self)[:reduce_stop]
__reduce__(self, proc) == reduced(__iter__(self, proc), reduce_stop(self.cls))

\* the field descriptors the namedtuple base defines: obj.system ... obj.machine
\* read the physical tuple at the field's position
getfield(self, k) ==
    [res |-> Return(<<self.items[k]>>, 0, ""), self |-> self, log |-> <<>>]

\* mutant of new_arity: the base declares processor as a sixth field
new_arity_with_processor == Len(uname_result_base) + 1

\* how many positional values uname_result_base.__new__ takes after cls
new_arity == Len(uname_result_base)

\* uname_result_base.__new__(cls, system, node, release, version, machine)
__new__(cls, args) ==
    IF Len(args) = new_arity
    THEN [res |-> Return(<<>>, 0, ""),
          self |-> <<[cls |-> cls, items |-> args, dict |-> NoDict]>>,
          log |-> <<>>]
    ELSE [res |-> Raise("TypeError", "__new__ positional arguments"),
          self |-> <<>>, log |-> <<>>]

\* mutant of make_num_fields: uname_result2 forgets the - 1
make_num_fields_all(cls) == Len(_fields(cls))

\* num_fields in _make:
\* len(cls._fields) in uname_result, len(cls._fields) - 1 in uname_result2
make_num_fields(cls) ==
    IF cls = "uname_result2" THEN Len(_fields(cls)) - 1 ELSE Len(_fields(cls))

\* lines 67-70 of _make, l being what len(result) did
make_length_check(num_fields, l) ==
    IF Raised(l) THEN [res |-> l.res, self |-> <<>>, log |-> l.log]
    ELSE IF l.res.n # num_fields + 1
    THEN [res |-> Raise("TypeError", "Expected arguments"), self |-> <<>>, log |-> l.log]
    ELSE [res |-> Return(<<>>, 0, ""), self |-> <<l.self>>, log |-> l.log]

\* lines 66-70 of _make, result being what cls.__new__(cls, *iterable) did
make_result(num_fields, result, proc) ==
    IF Raised(result) THEN result
    ELSE make_length_check(num_fields, __len__(result.self[1], proc))

\* cls._make(iterable)
_make(cls, iterable, proc) ==
    make_result(make_num_fields(cls), __new__(cls, iterable), proc)

-----------------------------------------------------------------------------
(* main() and what it imports *)

\* vals = _system, _node, _release, _version, _machine
main_vals ==
    <<"Darwin", "CHARLESs-MBP.attlocal.net", "21.5.0",
      "Darwin Kernel Version 21.5.0: Tue Apr 26 21:08:22 PDT 2022; root:xnu-8020.121.3~4/RELEASE_X86_64",
      "x86_64">>

\* _processor = "i386"
main_processor == "i386"

\* namedtuple's __repr__: the class name and the base's format applied to the
\* physical tuple; it neither iterates the instance nor reads self.processor
__repr__(self) ==
    [kind |-> "repr", cls |-> self.cls, keys |-> uname_result_base, vals |-> self.items]

\* dataclasses.asdict on UnameInfo(uname=obj): the one field holds a namedtuple,
\* which asdict rebuilds as type(obj)(*[... for v in obj]); str values are kept
asdict_rebuild(cls, t) ==
    IF Raised(t) THEN [res |-> t.res, uname |-> <<>>, self |-> t.self, log |-> t.log]
    ELSE [res |-> __new__(cls, t.res.val).res, uname |-> __new__(cls, t.res.val).self,
          self |-> t.self, log |-> t.log]

\* asdict(UnameInfo(uname=obj))
asdict(obj, proc) == asdict_rebuild(obj.cls, __iter__(obj, proc))

-----------------------------------------------------------------------------
(* Inputs *)

\* the k-th value a caller passes: main's literals, then the processor literal
ArgValue(k) == IF k <= Len(main_vals) THEN main_vals[k] ELSE main_processor

\* argument lists of every length up to MaxArgs, with "unknown" in at most one place
ArgLists ==
    UNION { { [k \in 1..n |-> IF k = p THEN "unknown" ELSE ArgValue(k)] : p \in 0..n }
            : n \in 0..MaxArgs }

\* what running `uname -p` can do: fail to spawn, exit non-zero, or print a line
ProcOutcomes ==
    { [spawned |-> FALSE, exit |-> 0, stdout |-> <<>>],
      [spawned |-> TRUE, exit |-> 1, stdout |-> <<>>],
      [spawned |-> TRUE, exit |-> 0, stdout |-> <<"i386", "\n">>],
      [spawned |-> TRUE, exit |-> 0, stdout |-> <<" ", "unknown", "\n">>] }

Keys == (0 - (MaxKey + 1)) .. MaxKey

-----------------------------------------------------------------------------
(* State machine *)

Call(op, obj, key, args, blank) ==
    [op |-> op, obj |-> obj, key |-> key, args |-> args, blank |-> blank]

Born(by, args, blank, from) ==
    [by |-> by, args |-> args, blank |-> blank, from |-> from, log |-> <<>>]

\* the caller's two variables: x = cls(...) or cls._make(...), y = a copy
Names == {"x", "y"}

Unbound == [n \in Names |-> <<>>]

Init ==
    /\ name \in {"__main__", "main"}
    /\ heap = [v \in Variants |-> Unbound]
    /\ hist = [v \in Variants |-> Unbound]
    /\ call = Call("none", "", 0, <<>>, FALSE)
    /\ ret = [v \in Variants |-> NoResult]
    /\ mpc = "line143"
    /\ m_uname_cache = <<>>
    /\ m_stdout = <<>>
    /\ m_log = <<>>
    /\ m_exc = ""

MainUnchanged == UNCHANGED <<name, mpc, m_uname_cache, m_stdout, m_log, m_exc>>
LibUnchanged == UNCHANGED <<name, heap, hist, call, ret>>

Imported == name = "main"

Fresh == \A v \in Variants : heap[v] = Unbound

\* n = <constructor call>: r[v] is what the call did for variant v and born[v]
\* how it was made; n is bound only if the call returned an instance
Bind(n, r, born) ==
    /\ heap' = [v \in Variants |->
                  IF r[v].self = <<>> THEN heap[v] ELSE [heap[v] EXCEPT ![n] = r[v].self]]
    /\ hist' = [v \in Variants |->
                  IF r[v].self = <<>> THEN hist[v]
                  ELSE [hist[v] EXCEPT ![n] = <<[born[v] EXCEPT !.log = r[v].log]>>]]
    /\ ret' = [v \in Variants |-> r[v].res]

\* x = cls(*args), the caller having mapped _unknown_as_blank over the values or not
New(args, blank) ==
    /\ Imported /\ Fresh
    /\ Bind("x", [v \in Variants |->
                     __new__(v, IF blank THEN map_unknown_as_blank(args) ELSE args)],
             [v \in Variants |-> Born("new", args, blank, "")])
    /\ call' = Call("new", "", 0, args, blank)
    /\ MainUnchanged

\* x = cls._make(args)
Make(args, proc) ==
    /\ Imported /\ Fresh
    /\ Bind("x", [v \in Variants |-> _make(v, args, proc)],
             [v \in Variants |-> Born("_make", args, FALSE, "")])
    /\ call' = Call("_make", "", 0, args, FALSE)
    /\ MainUnchanged

HasObj(n) == \A v \in Variants : heap[v][n] # <<>>

\* a method call on instance n: r[v] is what it did for variant v
Touch(n, r) ==
    /\ heap' = [v \in Variants |-> [heap[v] EXCEPT ![n] = <<r[v].self>>]]
    /\ hist' = [v \in Variants |-> [hist[v] EXCEPT ![n][1].log = @ \o r[v].log]]
    /\ ret' = [v \in Variants |-> r[v].res]

\* n.processor
Processor(n, proc) ==
    /\ Imported /\ HasObj(n)
    /\ Touch(n, [v \in Variants |-> processor(heap[v][n][1], proc)])
    /\ call' = Call("processor", n, 0, <<>>, FALSE)
    /\ MainUnchanged

\* tuple(n), list(n), for value in n
Iter(n, proc) ==
    /\ Imported /\ HasObj(n)
    /\ Touch(n, [v \in Variants |-> __iter__(heap[v][n][1], proc)])
    /\ call' = Call("__iter__", n, 0, <<>>, FALSE)
    /\ MainUnchanged

\* len(n)
LenOp(n, proc) ==
    /\ Imported /\ HasObj(n)
    /\ Touch(n, [v \in Variants |-> __len__(heap[v][n][1], proc)])
    /\ call' = Call("__len__", n, 0, <<>>, FALSE)
    /\ MainUnchanged

\* n[key]
GetItem(n, key, proc) ==
    /\ Imported /\ HasObj(n)
    /\ Touch(n, [v \in Variants |-> __getitem__(heap[v][n][1], key, proc)])
    /\ call' = Call("__getitem__", n, key, <<>>, FALSE)
    /\ MainUnchanged

\* n.system, n.node, n.release, n.version, n.machine: the k-th field of the base
Field(n, k) ==
    /\ Imported /\ HasObj(n)
    /\ Touch(n, [v \in Variants |-> getfield(heap[v][n][1], k)])
    /\ call' = Call("field", n, k, <<>>, FALSE)
    /\ MainUnchanged

\* n.__reduce__()
Reduce(n, proc) ==
    /\ Imported /\ HasObj(n)
    /\ Touch(n, [v \in Variants |-> __reduce__(heap[v][n][1], proc)])
    /\ call' = Call("__reduce__", n, 0, <<>>, FALSE)
    /\ MainUnchanged

\* y = constructor(*args) on the reduced form just obtained, as copy and pickle do
Reconstruct ==
    /\ Imported
    /\ call.op = "__reduce__"
    /\ \A v \in Variants : ret[v].status = "return"
    /\ Bind("y", [v \in Variants |-> __new__(ret[v].ctor, ret[v].val)],
             [v \in Variants |-> Born("reduce", ret[v].val, FALSE, call.obj)])
    /\ call' = Call("reconstruct", call.obj, 0, <<>>, FALSE)
    /\ MainUnchanged

\* line 143: _uname_cache = uname_result2(*map(_unknown_as_blank, vals))
MainConstruct ==
    /\ name = "__main__" /\ mpc = "line143"
    /\ LET r == __new__("uname_result2", map_unknown_as_blank(main_vals))
       IN  /\ m_uname_cache' = r.self
           /\ mpc' = IF r.res.status = "raise" THEN "raised" ELSE "line144"
           /\ m_exc' = r.res.exc
    /\ UNCHANGED <<m_stdout, m_log>>
    /\ LibUnchanged

\* line 144: print(_uname_cache)
MainPrint ==
    /\ name = "__main__" /\ mpc = "line144"
    /\ m_stdout' = Append(m_stdout, __repr__(m_uname_cache[1]))
    /\ mpc' = "line146"
    /\ UNCHANGED <<m_uname_cache, m_log, m_exc>>
    /\ LibUnchanged

\* lines 146-148: s_info = UnameInfo(...); s_info_as_dict = asdict(s_info); print(...)
MainAsdict(proc) ==
    /\ name = "__main__" /\ mpc = "line146"
    /\ LET r == asdict(m_uname_cache[1], proc)
       IN  /\ m_uname_cache' = <<r.self>>
           /\ m_log' = m_log \o r.log
           /\ IF r.res.status = "raise"
              THEN /\ mpc' = "raised"
                   /\ m_exc' = r.res.exc
                   /\ m_stdout' = m_stdout
              ELSE /\ mpc' = "done"
                   /\ m_exc' = ""
                   /\ m_stdout' = Append(m_stdout,
                          [kind |-> "dict", cls |-> r.uname[1].cls,
                           keys |-> uname_result_base, vals |-> r.uname[1].items])
    /\ LibUnchanged

Next ==
    \/ \E args \in ArgLists, blank \in BOOLEAN : New(args, blank)
    \/ \E args \in ArgLists, proc \in ProcOutcomes : Make(args, proc)
    \/ \E n \in Names, proc \in ProcOutcomes : Processor(n, proc)
    \/ \E n \in Names, proc \in ProcOutcomes : Iter(n, proc)
    \/ \E n \in Names, proc \in ProcOutcomes : LenOp(n, proc)
    \/ \E n \in Names, key \in Keys, proc \in ProcOutcomes : GetItem(n, key, proc)
    \/ \E n \in Names, proc \in ProcOutcomes : Reduce(n, proc)
    \/ Reconstruct
    \/ \E n \in Names, k \in DOMAIN uname_result_base : Field(n, k)
    \/ MainConstruct
    \/ MainPrint
    \/ \E proc \in ProcOutcomes : MainAsdict(proc)

Spec == Init /\ [][Next]_vars

-----------------------------------------------------------------------------
(* Vocabulary of the properties *)

Bound(v, n) == heap[v][n] # <<>>
Obj(v, n) == heap[v][n][1]
Hist(v, n) == hist[v][n][1]
Cached(o) == "processor" \in DOMAIN o.dict

\* the values the constructor received: the caller's, mapped or not
Given(h) == IF h.blank THEN map_unknown_as_blank(h.args) ELSE h.args

\* the value every read of the sixth field must return: the first resolver result
FirstResolved(h) == _unknown_as_blank(h.log[1].value)

\* the last operation read the sixth value of instance n
ReadSixth(n) ==
    /\ call.obj = n
    /\ \/ call.op \in {"processor", "__iter__"}
       \/ call.op = "__getitem__" /\ call.key \in {5, -1}

\* the sixth value an operation returned
Sixth(r) == r.val[Len(r.val)]

\* built by calling the class: directly, or by copy/pickle on the reduced form
ByConstructor(h) == h.by \in {"new", "reduce"}

-----------------------------------------------------------------------------
(* The claims *)

\* C1: a record built by the class constructor has not invoked the resolver
\* when the constructor returns; whatever sequence of processor reads, length
\* calls, iterations, index reads and reductions follows, the resolver runs at
\* most once for that instance, and every read of the sixth value returns the
\* result of that one run.
C1_ResolvedAtMostOnce ==
    \A v \in Variants, n \in Names :
        (Bound(v, n) /\ ByConstructor(Hist(v, n))) =>
            /\ Len(Hist(v, n).log) <= 1
            /\ Cached(Obj(v, n)) <=> Len(Hist(v, n).log) = 1
            /\ (call.op = "new" /\ n = "x") => Hist(v, n).log = <<>>
            /\ (call.op = "reconstruct" /\ n = "y") => Hist(v, n).log = <<>>
            /\ ReadSixth(n) =>
                   /\ ret[v].status = "return"
                   /\ Len(Hist(v, n).log) = 1
                   /\ Sixth(ret[v]) = FirstResolved(Hist(v, n))
                   /\ Obj(v, n).dict["processor"] = FirstResolved(Hist(v, n))

\* C1 witness: x was built by the constructor, was read at least once before
\* (its copy y was made from its reduced form) and is read again, returning
\* the cached "i386".
C1_Witness ==
    /\ call.op = "processor" /\ call.obj = "x"
    /\ \A v \in Variants :
        /\ Bound(v, "x") /\ Bound(v, "y")
        /\ Hist(v, "x").by = "new" /\ Hist(v, "y").from = "x"
        /\ ret[v].val = <<"i386">>

\* C2: whether or not the processor was read before, iterating an instance
\* yields exactly six values, the five given at construction in declared order
\* followed by the processor value of the one resolver call, and len() is 6.
C2_FullViewIsSix ==
    \A v \in Variants :
        /\ call.op = "__iter__" =>
               /\ ret[v].status = "return"
               /\ Len(ret[v].val) = 6
               /\ SubSeq(ret[v].val, 1, 5) = Given(Hist(v, call.obj))
               /\ ret[v].val[6] = FirstResolved(Hist(v, call.obj))
        /\ call.op = "__len__" => ret[v].status = "return" /\ ret[v].n = 6

\* C2 witness: len() of a rebuilt copy returned 6 and resolved its processor.
C2_Witness ==
    /\ call.op = "__len__" /\ call.obj = "y"
    /\ \A v \in Variants : ret[v].n = 6 /\ Hist(v, "y").log # <<>>

\* C3: obj[i] is element i of the six-value full view for -6 <= i <= 5,
\* counting from the end for negative i, and raises IndexError for any
\* other i.
C3_IndexingFullView ==
    \A v \in Variants :
        call.op = "__getitem__" =>
            LET o == Obj(v, call.obj)
                full == [k \in 1..6 |-> IF k <= 5 THEN o.items[k] ELSE o.dict["processor"]]
                i == call.key
            IN  /\ Cached(o)
                /\ (0 <= i /\ i <= 5) =>
                       ret[v].status = "return" /\ ret[v].val = <<full[i + 1]>>
                /\ (-6 <= i /\ i < 0) =>
                       ret[v].status = "return" /\ ret[v].val = <<full[i + 7]>>
                /\ (i >= 6 \/ i < -6) =>
                       ret[v].status = "raise" /\ ret[v].exc = "IndexError"

\* C3 witness: obj[-1] returned the processor value.
C3_Witness ==
    /\ call.op = "__getitem__" /\ call.key = -1
    /\ \A v \in Variants : ret[v].val = <<"i386">>

\* C4: the reduced form is a constructor and exactly the five eager values in
\* order, without the processor value, cached or not; the instance rebuilt
\* from it has the same five values and an unresolved processor, and what it
\* caches later comes from a resolver call of its own.
C4_ReducedForm ==
    \A v \in Variants :
        /\ call.op = "__reduce__" =>
               /\ ret[v].status = "return"
               /\ ret[v].ctor \in Variants
               /\ Len(ret[v].val) = 5
               /\ ret[v].val = Obj(v, call.obj).items
        /\ call.op = "reconstruct" =>
               /\ ret[v].status = "return"
               /\ Bound(v, "y")
               /\ Obj(v, "y").items = Hist(v, "y").args
               /\ Bound(v, "x") => Obj(v, "y").items = Obj(v, "x").items
               /\ ~Cached(Obj(v, "y"))
               /\ Hist(v, "y").log = <<>>
        /\ (Bound(v, "y") /\ Cached(Obj(v, "y"))) =>
               /\ Len(Hist(v, "y").log) = 1
               /\ Obj(v, "y").dict["processor"] = FirstResolved(Hist(v, "y"))

\* C4 witness: the original cached "i386", its copy resolved on its own and
\* cached the empty string.
C4_Witness ==
    \A v \in Variants :
        /\ Bound(v, "x") /\ Bound(v, "y")
        /\ Hist(v, "y").by = "reduce" /\ Hist(v, "y").from = "x"
        /\ Cached(Obj(v, "x")) /\ Obj(v, "x").dict["processor"] = "i386"
        /\ Cached(Obj(v, "y")) /\ Obj(v, "y").dict["processor"] = ""

\* C5 as stated: a literal "unknown" given in any eager position is stored as
\* the empty string, every other value unchanged.
C5_ConstructorNormalizes ==
    \A v \in Variants, n \in Names :
        (Bound(v, n) /\ Hist(v, n).by \in {"new", "_make"}) =>
            \A k \in 1..5 :
                Obj(v, n).items[k] =
                    IF Hist(v, n).args[k] = "unknown" THEN "" ELSE Hist(v, n).args[k]

\* C5 amended: the constructor and _make store the five values exactly as
\* they receive them, "unknown" included; the empty string replaces "unknown"
\* only where the caller mapped _unknown_as_blank over the values first, as
\* main does; field access, indexing and the full view return what is stored.
C5_CallerNormalizes ==
    \A v \in Variants, n \in Names :
        (Bound(v, n) /\ Hist(v, n).by \in {"new", "_make"}) =>
            /\ \A k \in 1..5 :
                   Obj(v, n).items[k] =
                       IF Hist(v, n).blank /\ Hist(v, n).args[k] = "unknown"
                       THEN ""
                       ELSE Hist(v, n).args[k]
            /\ (call.obj = n /\ call.op = "field") =>
                   ret[v].val = <<Obj(v, n).items[call.key]>>
            /\ (call.obj = n /\ call.op = "__getitem__" /\ call.key \in 0..4) =>
                   ret[v].val = <<Obj(v, n).items[call.key + 1]>>
            /\ (call.obj = n /\ call.op = "__iter__") =>
                   SubSeq(ret[v].val, 1, 5) = Obj(v, n).items

\* C5 witness: the caller mapped _unknown_as_blank over values holding
\* "unknown" in the third place, and reading the release field returned "".
C5_Witness ==
    /\ call.op = "field" /\ call.key = 3 /\ call.obj = "x"
    /\ \A v \in Variants :
        /\ Hist(v, "x").blank /\ Hist(v, "x").args[3] = "unknown"
        /\ ret[v].val = <<"">>

\* C6: after every operation (construction, _make, processor read, iteration,
\* indexing, length, reduced form, reconstruction, wrong-arity construction)
\* both variants have returned or raised the same thing, hold the same
\* values and cached processor, and have invoked the resolver equally often.
C6_VariantsIndistinguishable ==
    /\ ret["uname_result"] = ret["uname_result2"]
    /\ \A n \in Names :
        /\ Bound("uname_result", n) <=> Bound("uname_result2", n)
        /\ Bound("uname_result", n) /\ Bound("uname_result2", n) =>
               /\ Obj("uname_result", n).items = Obj("uname_result2", n).items
               /\ Obj("uname_result", n).dict = Obj("uname_result2", n).dict
               /\ Hist("uname_result", n).log = Hist("uname_result2", n).log

\* C6 witness: a copy was rebuilt from a reduced form and reduced in turn.
C6_Witness ==
    /\ call.op = "__reduce__" /\ call.obj = "y"
    /\ \A v \in Variants : ret[v].status = "return" /\ Len(ret[v].val) = 5

\* C7: when the external command fails, the resolver yields the empty string,
\* the operation that triggered it returns normally (no OSError or
\* CalledProcessError reaches the caller), the empty string is cached, and no
\* second attempt is made.
C7_FailureIsBlankAndCached ==
    \A v \in Variants :
        /\ ret[v].exc \notin {"OSError", "CalledProcessError"}
        /\ \A n \in Names :
            (Bound(v, n) /\ Hist(v, n).log # <<>> /\ Hist(v, n).log[1].failed) =>
                /\ Len(Hist(v, n).log) = 1
                /\ Hist(v, n).log[1].value = ""
                /\ Cached(Obj(v, n))
                /\ Obj(v, n).dict["processor"] = ""
                /\ ReadSixth(n) => ret[v].status = "return" /\ Sixth(ret[v]) = ""
                /\ (call.obj = n /\ call.op = "__len__") => ret[v].status = "return"

\* C7 witness: the command failed for x, and a later read returned "".
C7_Witness ==
    /\ call.op = "processor" /\ call.obj = "x"
    /\ \A v \in Variants :
        /\ Bound(v, "y") /\ Hist(v, "y").from = "x"
        /\ Hist(v, "x").log # <<>> /\ Hist(v, "x").log[1].failed
        /\ ret[v].val = <<"">>

\* C8: the class constructor and _make raise TypeError and produce no record
\* for any number of values other than five, six included, and return a
\* record for exactly five.
C8_ArityChecked ==
    \A v \in Variants :
        call.op \in {"new", "_make"} =>
            IF Len(call.args) = 5
            THEN ret[v].status = "return" /\ Bound(v, "x")
            ELSE /\ ret[v].status = "raise" /\ ret[v].exc = "TypeError"
                 /\ heap[v] = Unbound

\* C8 witness: _make was given six values and raised TypeError.
C8_Witness ==
    /\ call.op = "_make" /\ Len(call.args) = 6
    /\ \A v \in Variants : ret[v].exc = "TypeError" /\ heap[v] = Unbound

\* C9: main() runs to completion without raising and its last output is the
\* mapping of the five literal values and the processor value.
C9_MainCompletes ==
    mpc \in {"done", "raised"} =>
        /\ mpc = "done"
        /\ m_exc = ""
        /\ m_stdout[Len(m_stdout)].kind = "dict"
        /\ m_stdout[Len(m_stdout)].vals = main_vals

\* C10: when _make returns a record built from five values, the resolver has
\* run exactly once for it and its processor is cached, whereas the class
\* constructor leaves it unresolved; _make's own "Expected N arguments"
\* TypeError is never raised.
C10_MakeForcesResolution ==
    \A v \in Variants :
        /\ ret[v].msg # "Expected arguments"
        /\ (call.op = "_make" /\ Len(call.args) = 5) =>
               /\ ret[v].status = "return"
               /\ Bound(v, "x")
               /\ Cached(Obj(v, "x"))
               /\ Len(Hist(v, "x").log) = 1
        /\ (call.op = "new" /\ Len(call.args) = 5) =>
               /\ Bound(v, "x")
               /\ ~Cached(Obj(v, "x"))
               /\ Hist(v, "x").log = <<>>

\* C10 witness: _make returned a record whose processor is already "i386".
C10_Witness ==
    /\ call.op = "_make"
    /\ \A v \in Variants :
        /\ ret[v].status = "return"
        /\ Bound(v, "x") /\ Cached(Obj(v, "x"))
        /\ Obj(v, "x").dict["processor"] = "i386"

====
